---- MODULE Spec2Model ----
(***************************************************************************)
(* State machine of the job-ad extraction agent (src/src/agent).           *)
(*                                                                         *)
(* The shared conversation state (ReActConversationState) is a mapping     *)
(* from field names to values.  Every tool reads the state, returns a      *)
(* Command(update={...}) patch, and the graph applies the patch: the       *)
(* `messages` field is appended to, every other field is overwritten.      *)
(* A tool that raises returns no patch.                                    *)
(*                                                                         *)
(* Strings that the code transforms (skill labels) are sequences of        *)
(* one-character strings; python lists whose order the code discards with  *)
(* list(set(...)) are sets.                                                *)
(***************************************************************************)
EXTENDS Integers, Sequences, FiniteSets, TLC

VARIABLES
    messages,          \* the message log (AgentState.messages, add_messages reducer)
    skills,            \* state["skills"]: [form, hard, soft, both]
    job_ads,           \* state["job_ads"]: [present, ads]
    todos,             \* state["todos"]: [present, items]
    requirements,      \* state["requirements"]: [present, items]
    responsibilities,  \* state["responsibilities"]: [present, items]
    evaluation,        \* state["evaluation"]: [present, result]
    step,              \* the tool the driver dispatched last
    error,             \* the exception the last tool raised, or "none"
    ncalls,            \* collaborator calls made by the last tool
    extracted,         \* the lists lx.extract / chain.invoke returned to the last tool
    judge              \* the judging collaborator: its reply to each (ad, category) prompt

vars == <<messages, skills, job_ads, todos, requirements, responsibilities,
          evaluation, step, error, ncalls, extracted, judge>>

-----------------------------------------------------------------------------
(* Bounds of the model *)

\* tool calls explored from a seeded state: by the skill tools, by the task
\* list tools, and by all tools together
MaxSkillSteps == 2
MaxTodoSteps == 2
MaxSteps == 1
MaxEvalSteps == 1
MaxContentSteps == 1
\* most job ads in state["job_ads"]
MaxAds == 2
\* longest todo list supplied to write_todos
MaxTodos == 2

-----------------------------------------------------------------------------
(* Strings *)

\* str.lower() on one character
Lower(ch) ==
    CASE ch = "S" -> "s"
      [] ch = "P" -> "p"
      [] ch = "C" -> "c"
      [] OTHER -> ch

\* str.lower()
LowerStr(s) == [i \in 1..Len(s) |-> Lower(s[i])]

\* str.split() with no argument: the maximal runs of non-whitespace characters
RECURSIVE SplitAcc(_, _, _, _)
SplitAcc(s, i, cur, acc) ==
    IF i > Len(s)
    THEN IF cur = <<>> THEN acc ELSE Append(acc, cur)
    ELSE IF s[i] = " "
         THEN SplitAcc(s, i + 1, <<>>, IF cur = <<>> THEN acc ELSE Append(acc, cur))
         ELSE SplitAcc(s, i + 1, Append(cur, s[i]), acc)

Split(s) == SplitAcc(s, 1, <<>>, <<>>)

\* " ".join(words)
RECURSIVE JoinSpace(_)
JoinSpace(words) ==
    IF words = <<>> THEN <<>>
    ELSE IF Len(words) = 1 THEN words[1]
    ELSE words[1] \o <<" ">> \o JoinSpace(Tail(words))

\* "_" in skill
HasUnderscore(s) == \E i \in 1..Len(s) : s[i] = "_"

\* " ".join(skill.split()).lower() if "_" in skill else skill.lower()
Normalise(skill) ==
    IF HasUnderscore(skill) THEN LowerStr(JoinSpace(Split(skill))) ELSE LowerStr(skill)

NormaliseAll(labels) == {Normalise(l) : l \in labels}

-----------------------------------------------------------------------------
(* Values *)

python == <<"p">>
sql == <<"s">>
communication == <<"c">>

\* extraction_class values the extraction collaborator can return
RawLabels == {<<"S">>, <<"c", " ">>, <<"p", "_", " ", " ", "q">>}

\* the label lists one lx.extract call can return (as sets: the code applies set())
Replies == {{}, {<<"S">>}, {<<"c", " ">>}, {<<"S">>, <<"p", "_", " ", " ", "q">>}}

\* the job advertisement texts
AdTexts == {"ad1", "ad2"}

RECURSIVE SeqsUpTo(_, _)
SeqsUpTo(S, n) ==
    IF n = 0 THEN {<<>>}
    ELSE LET shorter == SeqsUpTo(S, n - 1)
         IN  shorter \cup {Append(q, x) : q \in {r \in shorter : Len(r) = n - 1}, x \in S}

\* List[JobAdContent]: each item {"ad_text": text}
JobAdLists == SeqsUpTo(AdTexts, MaxAds)

\* Todo: content and status
Statuses == {"pending", "in_progress", "completed"}
TodoItems == [content : {"extract skills"}, status : Statuses]
TodoLists == SeqsUpTo(TodoItems, MaxTodos)

\* a field that is missing from the state mapping
Missing == [present |-> FALSE, items |-> <<>>]
Field(items) == [present |-> TRUE, items |-> items]

\* state.get(key, []) / state.get(key) followed by a truth test
Get(field) == IF field.present THEN field.items ELSE <<>>

\* SkillTypes: "model" is a SkillTypes instance, "dict" the mapping model_dump()
\* returns, "absent" a state without the key
NoSkills == [form |-> "absent", hard |-> {}, soft |-> {}, both |-> {}]
SkillTypes(h, s, b) == [form |-> "model", hard |-> h, soft |-> s, both |-> b]

\* BaseModel.model_dump(): a plain dict with the same fields
model_dump(m) == [m EXCEPT !.form = "dict"]

\* `if skill_state:` a missing key gives None; a BaseModel instance and a
\* mapping with keys are true
Truthy(sk) == sk.form # "absent"

\* .model_copy / .hard / .soft / .both exist on a SkillTypes instance only
IsModel(sk) == sk.form = "model"

\* the SkillTypes records a run can be seeded with
SeedSkills ==
    {NoSkills} \cup
    {SkillTypes(h, s, b) : h \in SUBSET {python, sql},
                           s \in SUBSET {sql, communication},
                           b \in SUBSET {sql, communication}}

\* result_evaluation: one entry per task; "skills" holds a list of entries, one
\* per non-empty skill list
NoEntry == [present |-> FALSE, reasoning |-> <<>>, score |-> <<>>]
NoSkillEntries == [present |-> FALSE, entries |-> <<>>]
EmptyResult ==
    [skills |-> NoSkillEntries, requirements |-> NoEntry, responsibilities |-> NoEntry]
NoEvaluation == [present |-> FALSE, result |-> EmptyResult]

\* the lists chain.invoke(ad) can return
ListReplies == {<<>>, <<"degree">>, <<"5 years", "degree">>}

\* the lists the judge is asked about
Categories == {"hard", "soft", "both", "requirements", "responsibilities"}

\* the EvalResults the judging collaborator can return: any number of
\* reasoning items and of scores
JudgeReplies ==
    { [reasoning |-> <<"r1">>, score |-> <<8>>],
      [reasoning |-> <<"r1", "r2">>, score |-> <<10>>] }

\* the judges explored (temperature = 0: the reply is a function of the
\* prompt): the reply depends on the advertisement, or on the category
JudgeByCategory ==
    [p \in AdTexts \X Categories |->
        IF p[2] \in {"hard", "requirements"}
        THEN [reasoning |-> <<"r1">>, score |-> <<8>>]
        ELSE [reasoning |-> <<"r1", "r2">>, score |-> <<10>>]]

Judges ==
    {[p \in AdTexts \X Categories |-> f[p[1]]] : f \in [AdTexts -> JudgeReplies]}
    \cup {JudgeByCategory}

-----------------------------------------------------------------------------
(* Log messages (ToolMessage contents) *)

Msg(kind, n, list) == [kind |-> kind, n |-> n, list |-> list]

NoJobAdsMsg == Msg("No job_ads were found in the state!", 0, <<>>)

\* update_content: "The job_ad was successfuly updated!" followed by the list
ContentMsg(ads) == Msg("The job_ad was successfuly updated!", Len(ads), ads)

\* a guard that tests only for the missing key
NoJobAds_missing_key_only(ja) == ~ja.present

\* `if not job_ads:` after state.get("job_ads", [])
NoJobAds(ja) == Get(ja) = <<>>

-----------------------------------------------------------------------------
(* Initial states: an empty state or an externally supplied seed *)

\* the part of the state no seed supplies
Fresh ==
    /\ messages = <<>>
    /\ todos = Missing
    /\ evaluation = NoEvaluation
    /\ step = "start"
    /\ error = "none"
    /\ ncalls = 0
    /\ extracted = <<>>

\* a run that starts with nothing but the conversation
InitTodos ==
    /\ Fresh
    /\ judge = JudgeByCategory
    /\ skills = NoSkills
    /\ job_ads = Missing
    /\ requirements = Missing
    /\ responsibilities = Missing

\* a run seeded with a SkillTypes record and job ads
InitSkills ==
    /\ Fresh
    /\ judge = JudgeByCategory
    /\ skills \in SeedSkills
    /\ job_ads \in {Missing} \cup {Field(l) : l \in SeqsUpTo({"ad1"}, MaxAds)}
    /\ requirements = Missing
    /\ responsibilities = Missing

\* a run seeded with any of the fields, or resumed from a checkpoint in which a
\* tool has already written the dumped skills
Init ==
    /\ Fresh
    /\ judge = JudgeByCategory
    /\ skills \in {NoSkills,
                   SkillTypes({}, {}, {}),
                   SkillTypes({python}, {}, {}),
                   SkillTypes({python, sql}, {sql, communication}, {}),
                   model_dump(SkillTypes({python}, {communication}, {sql}))}
    /\ job_ads \in {Missing, Field(<<>>), Field(<<"ad1">>), Field(<<"ad1", "ad2">>)}
    /\ \/ requirements = Missing /\ responsibilities = Missing
       \/ requirements = Field(<<"degree">>) /\ responsibilities = Field(<<"5 years">>)

\* a run in which update_content has just created the job_ads field
InitContent ==
    /\ judge = JudgeByCategory
    /\ skills \in {NoSkills, SkillTypes({python, sql}, {sql, communication}, {})}
    /\ \E ads \in {<<"ad1">>, <<"ad1", "ad2">>} :
          /\ job_ads = Field(ads)
          /\ messages = <<ContentMsg(ads)>>
    /\ todos = Missing
    /\ requirements = Missing
    /\ responsibilities = Missing
    /\ evaluation = NoEvaluation
    /\ step = "update_content"
    /\ error = "none"
    /\ ncalls = 0
    /\ extracted = <<>>

\* an evaluation of any seeded state, by any of the judges
InitEval ==
    /\ Fresh
    /\ judge \in Judges
    /\ skills \in {NoSkills,
                   SkillTypes({}, {}, {}),
                   SkillTypes({python}, {}, {}),
                   SkillTypes({python, sql}, {sql, communication}, {}),
                   model_dump(SkillTypes({python}, {communication}, {sql}))}
    /\ job_ads \in {Missing} \cup {Field(l) : l \in JobAdLists}
    /\ requirements \in {Missing, Field(<<"degree">>)}
    /\ responsibilities \in {Missing, Field(<<"5 years">>)}

\* the graph adds the tool's ToolMessage to the log (add_messages reducer)
add_messages(log, msg) == Append(log, msg)

\* a tool raised: no Command is returned, no field changes
Raises(tool, exception, calls, labels) ==
    /\ step' = tool
    /\ error' = exception
    /\ ncalls' = calls
    /\ extracted' = labels
    /\ UNCHANGED <<messages, skills, job_ads, todos, requirements,
                   responsibilities, evaluation, judge>>

\* a tool returned Command(update={"messages": [msg]})
Returns(tool, msg, calls, labels) ==
    /\ step' = tool
    /\ error' = "none"
    /\ ncalls' = calls
    /\ extracted' = labels
    /\ messages' = add_messages(messages, msg)
    /\ UNCHANGED judge

\* a collaborator call that retries once after a failure
calls_with_retry(i) == i + 1

\* the collaborator calls a tool has made when its i-th call fails: no call
\* is wrapped in try/except, the exception leaves the tool
calls_on_failure(i) == i

\* lx.extract raises on the i-th advertisement (on a dumped dict the first
\* iteration raises AttributeError before a second call)
lx_extract_fails(tool) ==
    /\ ~NoJobAds(job_ads)
    /\ \E i \in 1..(IF Truthy(skills) /\ ~IsModel(skills) THEN 1 ELSE Len(Get(job_ads))) :
       \E replies \in [1..(i - 1) -> Replies] :
           Raises(tool, "CollaboratorError", calls_on_failure(i), replies)

\* chain.invoke raises on the i-th advertisement
chain_invoke_fails(tool) ==
    /\ ~NoJobAds(job_ads)
    /\ \E i \in 1..Len(Get(job_ads)) :
       \E replies \in [1..(i - 1) -> ListReplies] :
           Raises(tool, "CollaboratorError", calls_on_failure(i), replies)

-----------------------------------------------------------------------------
(* skill_utils.py: extract_soft_skills *)

\* one iteration of the loop over advertisements: the dumped copy of the
\* state's SkillTypes with soft = list(set(current_softskills + softskills_normalised))
soft_iteration(sk, reply) ==
    model_dump([sk EXCEPT !.soft = sk.soft \cup NormaliseAll(reply)])

\* the loop over advertisements: updated_dictionary after the i-th ad onwards
RECURSIVE soft_loop(_, _, _, _)
soft_loop(sk, replies, i, updated_dictionary) ==
    IF i > Len(replies) THEN updated_dictionary
    ELSE soft_loop(sk, replies, i + 1, soft_iteration(sk, replies[i]))

SoftMsg(n) == Msg("Successfully extracted n new soft skills.", n, <<>>)

extract_soft_skills ==
    \/ lx_extract_fails("extract_soft_skills")
    \/ IF NoJobAds(job_ads)
       THEN /\ Returns("extract_soft_skills", NoJobAdsMsg, 0, <<>>)
            /\ UNCHANGED <<skills, job_ads, todos, requirements, responsibilities,
                           evaluation>>
       ELSE \E replies \in [1..Len(Get(job_ads)) -> Replies] :
            IF ~Truthy(skills)
            THEN \* updated_softskills is never bound: the return statement raises
                 Raises("extract_soft_skills", "UnboundLocalError", Len(replies), replies)
            ELSE IF ~IsModel(skills)
            THEN \* a dict has no model_copy: the first iteration raises
                 Raises("extract_soft_skills", "AttributeError", 1, <<replies[1]>>)
            ELSE LET updated_dictionary == soft_loop(skills, replies, 1, NoSkills)
                 IN  /\ Returns("extract_soft_skills",
                                SoftMsg(Cardinality(updated_dictionary.soft)),
                                Len(replies), replies)
                     /\ skills' = updated_dictionary
                     /\ UNCHANGED <<job_ads, todos, requirements, responsibilities,
                                    evaluation>>

-----------------------------------------------------------------------------
(* skill_utils.py: extract_hard_skills *)

\* an iteration that files the extracted labels under both
hard_iteration_into_both(sk, reply) ==
    model_dump([sk EXCEPT !.both = sk.both \cup NormaliseAll(reply)])

\* one iteration of the loop: the copy of the state's skills, extended, dumped
hard_iteration(sk, reply) ==
    model_dump([sk EXCEPT !.hard = sk.hard \cup NormaliseAll(reply)])

RECURSIVE hard_loop(_, _, _, _)
hard_loop(sk, replies, i, updated_dictionary) ==
    IF i > Len(replies) THEN updated_dictionary
    ELSE hard_loop(sk, replies, i + 1, hard_iteration(sk, replies[i]))

HardMsg(n) == Msg("Successfully extracted n new hard skills.", n, <<>>)

extract_hard_skills ==
    \/ lx_extract_fails("extract_hard_skills")
    \/ IF NoJobAds(job_ads)
       THEN /\ Returns("extract_hard_skills", NoJobAdsMsg, 0, <<>>)
            /\ UNCHANGED <<skills, job_ads, todos, requirements, responsibilities,
                           evaluation>>
       ELSE \E replies \in [1..Len(Get(job_ads)) -> Replies] :
            IF ~Truthy(skills)
            THEN Raises("extract_hard_skills", "UnboundLocalError", Len(replies), replies)
            ELSE IF ~IsModel(skills)
            THEN Raises("extract_hard_skills", "AttributeError", 1, <<replies[1]>>)
            ELSE LET updated_dictionary == hard_loop(skills, replies, 1, NoSkills)
                 IN  /\ Returns("extract_hard_skills",
                                HardMsg(Cardinality(updated_dictionary.hard)),
                                Len(replies), replies)
                     /\ skills' = updated_dictionary
                     /\ UNCHANGED <<job_ads, todos, requirements, responsibilities,
                                    evaluation>>

-----------------------------------------------------------------------------
(* skill_utils.py: check_for_bothskills *)

\* an intersection that reports every hard skill as shared
intersection_is_hard(sk) == sk.hard

\* hard_set.intersection(soft_set)
intersection(sk) == sk.hard \cap sk.soft

\* a reconciliation that forgets soft_set.remove(skill)
reconcile_keeps_soft(sk) ==
    model_dump([sk EXCEPT !.hard = sk.hard \ (sk.hard \cap sk.soft),
                          !.both = sk.hard \cap sk.soft])

\* the SkillTypes written when the intersection is not empty: every skill of the
\* intersection is removed from hard_set and soft_set, and both_skills, which
\* starts empty, receives it
reconcile(sk) ==
    model_dump([sk EXCEPT !.hard = sk.hard \ intersection(sk),
                          !.soft = sk.soft \ intersection(sk),
                          !.both = intersection(sk)])

UniqueMsg == Msg("Hard & Soft skills were validated, all values are unique!", 0, <<>>)
FoundMsg(n) == Msg("Found n matching skills when validated HARD and SOFT skills.", n, <<>>)

check_for_bothskills ==
    /\ IF ~Truthy(skills)
       THEN \* hard_skills is never bound: set(hard_skills) raises
            Raises("check_for_bothskills", "UnboundLocalError", 0, <<>>)
       ELSE IF ~IsModel(skills)
       THEN Raises("check_for_bothskills", "AttributeError", 0, <<>>)
       ELSE IF intersection(skills) # {}
       THEN /\ Returns("check_for_bothskills",
                       FoundMsg(Cardinality(reconcile(skills).both)), 0, <<>>)
            /\ skills' = reconcile(skills)
            /\ UNCHANGED <<job_ads, todos, requirements, responsibilities, evaluation>>
       ELSE /\ Returns("check_for_bothskills", UniqueMsg, 0, <<>>)
            /\ UNCHANGED <<skills, job_ads, todos, requirements, responsibilities,
                           evaluation>>

-----------------------------------------------------------------------------
(* todo_utils.py *)

\* a todos channel with an appending reducer
apply_todos_appends(current, supplied) == Field(Get(current) \o supplied)

\* the todos channel has no reducer: the patch value replaces the stored value
apply_todos(current, supplied) == Field(supplied)

TodosMsg(supplied) == Msg("Updated todo list to", Len(supplied), supplied)

\* a write_todos whose patch also resets job_ads
write_todos_resets_job_ads ==
    /\ \E supplied \in TodoLists :
        /\ Returns("write_todos", TodosMsg(supplied), 0, <<>>)
        /\ todos' = apply_todos(todos, supplied)
    /\ job_ads' = Field(<<>>)
    /\ UNCHANGED <<skills, requirements, responsibilities, evaluation>>

write_todos ==
    /\ \E supplied \in TodoLists :
        /\ Returns("write_todos", TodosMsg(supplied), 0, <<>>)
        /\ todos' = apply_todos(todos, supplied)
    /\ UNCHANGED <<skills, job_ads, requirements, responsibilities, evaluation>>

\* status_emoji.get(todo["status"])
status_emoji(status) ==
    CASE status = "pending" -> "hourglass"
      [] status = "in_progress" -> "arrows"
      [] status = "completed" -> "check"

\* f"{i}. {emoji} {todo['content']}: {todo['status']}\n"
TodoLine(i, todo) ==
    [index |-> i, emoji |-> status_emoji(todo.status), content |-> todo.content,
     status |-> todo.status]

\* "Current TODO list:\n"
HeaderLine == [index |-> 0, emoji |-> "", content |-> "Current TODO list:", status |-> ""]

\* the loop of read_todos over enumerate(todos, 1); the string is the sequence
\* of its lines, and every iteration assigns result, it does not extend it
RECURSIVE todo_loop(_, _, _)
todo_loop(items, i, result) ==
    IF i > Len(items) THEN result
    ELSE todo_loop(items, i + 1, <<TodoLine(i, items[i])>>)

NoTodosMsg == Msg("Currently, there aren't any todos in the list.", 0, <<>>)

\* a read_todos without the test for an empty list
read_result_always_renders(items) ==
    Msg("rendering", 0, todo_loop(items, 1, <<HeaderLine>>))

\* the string read_todos returns, as a message
read_result(items) ==
    IF items = <<>> THEN NoTodosMsg
    ELSE Msg("rendering", 0, todo_loop(items, 1, <<HeaderLine>>))

read_todos ==
    /\ Returns("read_todos", read_result(Get(todos)), 0, <<>>)
    /\ UNCHANGED <<skills, job_ads, todos, requirements, responsibilities, evaluation>>

update_content ==
    /\ \E ads \in JobAdLists :
        /\ Returns("update_content", ContentMsg(ads), 0, <<>>)
        /\ job_ads' = Field(ads)
    /\ UNCHANGED <<skills, todos, requirements, responsibilities, evaluation>>

-----------------------------------------------------------------------------
(* req_and_res.py *)

ExtractedMsg(n) == Msg("n were extracted from the job advertisment!", n, <<>>)

\* the loop over advertisements: every iteration overwrites the dictionary entry
RECURSIVE list_loop(_, _, _)
list_loop(replies, i, entry) ==
    IF i > Len(replies) THEN entry
    ELSE list_loop(replies, i + 1, replies[i])

\* an update that extends the list already in the state
replace_list_extends(current, extracted_list) == Field(Get(current) \o extracted_list)

\* update={"responsibilities": ...} / {"requirements": ...}: the field is overwritten
replace_list(current, extracted_list) == Field(extracted_list)

extract_responsibilities ==
    \/ chain_invoke_fails("extract_responsibilities")
    \/ /\ IF NoJobAds(job_ads)
          THEN /\ Returns("extract_responsibilities", NoJobAdsMsg, 0, <<>>)
               /\ UNCHANGED responsibilities
          ELSE \E replies \in [1..Len(Get(job_ads)) -> ListReplies] :
               LET extracted_list == list_loop(replies, 1, <<>>)
               IN  /\ Returns("extract_responsibilities", ExtractedMsg(Len(extracted_list)),
                              Len(replies), replies)
                   /\ responsibilities' = replace_list(responsibilities, extracted_list)
       /\ UNCHANGED <<skills, job_ads, todos, requirements, evaluation>>

extract_requirements ==
    \/ chain_invoke_fails("extract_requirements")
    \/ /\ IF NoJobAds(job_ads)
          THEN /\ Returns("extract_requirements", NoJobAdsMsg, 0, <<>>)
               /\ UNCHANGED requirements
          ELSE \E replies \in [1..Len(Get(job_ads)) -> ListReplies] :
               LET extracted_list == list_loop(replies, 1, <<>>)
               IN  /\ Returns("extract_requirements", ExtractedMsg(Len(extracted_list)),
                              Len(replies), replies)
                   /\ requirements' = replace_list(requirements, extracted_list)
       /\ UNCHANGED <<skills, job_ads, todos, responsibilities, evaluation>>

-----------------------------------------------------------------------------
(* evaluation.py: evaluate_correctness *)

\* score_range = (0, 10)
score_range == <<0, 10>>

\* the raw score stored as it is
NormaliseScore_raw(score, range) == [num |-> score, den |-> 1]

\* score / score_range[1], kept as the exact fraction
NormaliseScore(score, range) == [num |-> score, den |-> range[2]]

\* scores = [score / score_range[1] for score in scores]
NormaliseScores(scores, range) ==
    [i \in 1..Len(scores) |-> NormaliseScore(scores[i], range)]

\* the three lists of all_skills_outputs, in the order of the zip
SkillNames == <<"hard", "soft", "both">>
SkillList(sk, name) ==
    CASE name = "hard" -> sk.hard
      [] name = "soft" -> sk.soft
      [] name = "both" -> sk.both

\* the prompts sent for one advertisement: one per non-empty skill list (when
\* state["skills"] is true) and one per non-empty requirement / responsibility list
Prompts(sk, reqs, resps) ==
    (IF Truthy(sk) THEN {n \in {"hard", "soft", "both"} : SkillList(sk, n) # {}} ELSE {})
    \cup (IF Get(reqs) # <<>> THEN {"requirements"} ELSE {})
    \cup (IF Get(resps) # <<>> THEN {"responsibilities"} ELSE {})

\* {"reasoning": reasoning, "score": scores} for one reply
EvalEntry(reply) ==
    [present |-> TRUE, reasoning |-> reply.reasoning,
     score |-> NormaliseScores(reply.score, score_range)]

\* skill_results: an entry appended for every non-empty skill list, in order
RECURSIVE skill_results(_, _, _, _)
skill_results(sk, replies, ad, k) ==
    IF k > Len(SkillNames) THEN <<>>
    ELSE LET name == SkillNames[k]
             rest == skill_results(sk, replies, ad, k + 1)
         IN  IF SkillList(sk, name) # {}
             THEN <<[name |-> name,
                     reasoning |-> replies[<<ad, name>>].reasoning,
                     score |-> NormaliseScores(replies[<<ad, name>>].score, score_range)]>>
                  \o rest
             ELSE rest

\* a loop body that stores an entry without scores for an empty list
eval_ad_zero_entry(result, sk, reqs, resps, replies, ad) ==
    [skills |->
        IF Truthy(sk)
        THEN [present |-> TRUE, entries |-> skill_results(sk, replies, ad, 1)]
        ELSE result.skills,
     requirements |->
        IF Get(reqs) # <<>> THEN EvalEntry(replies[<<ad, "requirements">>])
        ELSE [present |-> TRUE, reasoning |-> <<>>, score |-> <<>>],
     responsibilities |->
        IF Get(resps) # <<>> THEN EvalEntry(replies[<<ad, "responsibilities">>])
        ELSE [present |-> TRUE, reasoning |-> <<>>, score |-> <<>>]]

\* the body of the loop over tasks for one advertisement, applied to result_evaluation
eval_ad(result, sk, reqs, resps, replies, ad) ==
    [skills |->
        IF Truthy(sk)
        THEN [present |-> TRUE, entries |-> skill_results(sk, replies, ad, 1)]
        ELSE result.skills,
     requirements |->
        IF Get(reqs) # <<>> THEN EvalEntry(replies[<<ad, "requirements">>])
        ELSE result.requirements,
     responsibilities |->
        IF Get(resps) # <<>> THEN EvalEntry(replies[<<ad, "responsibilities">>])
        ELSE result.responsibilities]

\* the loop over advertisements
RECURSIVE eval_loop(_, _, _, _, _, _, _)
eval_loop(result, sk, reqs, resps, replies, ad, n) ==
    IF ad > n THEN result
    ELSE eval_loop(eval_ad(result, sk, reqs, resps, replies, ad), sk, reqs, resps,
                   replies, ad + 1, n)

GEvalMsg == Msg("G-Eval for creterion: Correctness was conducted successfuly!", 0, <<>>)

\* llm_with_struct_output.invoke raises on the c-th prompt of the run
llm_invoke_fails ==
    /\ ~NoJobAds(job_ads)
    /\ ~(Truthy(skills) /\ ~IsModel(skills))
    /\ \E c \in 1..(Len(Get(job_ads))
                     * Cardinality(Prompts(skills, requirements, responsibilities))) :
           Raises("evaluate_correctness", "CollaboratorError", calls_on_failure(c), <<>>)

evaluate_correctness ==
    \/ llm_invoke_fails
    \/ IF NoJobAds(job_ads)
       THEN /\ Returns("evaluate_correctness", NoJobAdsMsg, 0, <<>>)
            /\ UNCHANGED <<skills, job_ads, todos, requirements, responsibilities,
                           evaluation>>
       ELSE IF Truthy(skills) /\ ~IsModel(skills)
       THEN \* state_values.hard on a dict raises in the first iteration
            Raises("evaluate_correctness", "AttributeError", 0, <<>>)
       ELSE LET n == Len(Get(job_ads))
                prompts == Prompts(skills, requirements, responsibilities)
                \* the reply to the prompt for the ad-th advertisement and a category
                replies == [p \in (1..n) \X prompts |-> judge[<<Get(job_ads)[p[1]], p[2]>>]]
            IN  /\ Returns("evaluate_correctness", GEvalMsg, n * Cardinality(prompts), <<>>)
                /\ evaluation' =
                       [present |-> TRUE,
                        result |-> eval_loop(EmptyResult, skills, requirements,
                                             responsibilities, replies, 1, n)]
                /\ UNCHANGED <<skills, job_ads, todos, requirements, responsibilities>>

-----------------------------------------------------------------------------
(* Specifications *)

\* the driver has dispatched fewer than n tool calls that returned a message
Within(n) == Len(messages) < n

\* the skill tools on a seeded state
NextSkills ==
    \/ Within(MaxSkillSteps) /\ extract_soft_skills
    \/ Within(MaxSkillSteps) /\ extract_hard_skills
    \/ Within(MaxSkillSteps) /\ check_for_bothskills

SpecSkills == InitSkills /\ [][NextSkills]_vars

\* the task list tools
NextTodos ==
    \/ Within(MaxTodoSteps) /\ write_todos
    \/ Within(MaxTodoSteps) /\ read_todos

SpecTodos == InitTodos /\ [][NextTodos]_vars

NextEval ==
    \/ Within(MaxEvalSteps) /\ evaluate_correctness

SpecEval == InitEval /\ [][NextEval]_vars

\* every tool of the agent, after the ingestion
NextContent ==
    \/ Within(MaxContentSteps + 1) /\ update_content
    \/ Within(MaxContentSteps + 1) /\ write_todos
    \/ Within(MaxContentSteps + 1) /\ read_todos
    \/ Within(MaxContentSteps + 1) /\ extract_soft_skills
    \/ Within(MaxContentSteps + 1) /\ extract_hard_skills
    \/ Within(MaxContentSteps + 1) /\ check_for_bothskills
    \/ Within(MaxContentSteps + 1) /\ extract_requirements
    \/ Within(MaxContentSteps + 1) /\ extract_responsibilities
    \/ Within(MaxContentSteps + 1) /\ evaluate_correctness

SpecContent == InitContent /\ [][NextContent]_vars

\* every tool of the agent
Next ==
    \/ Within(MaxSteps) /\ update_content
    \/ Within(MaxSteps) /\ write_todos
    \/ Within(MaxSteps) /\ read_todos
    \/ Within(MaxSteps) /\ extract_soft_skills
    \/ Within(MaxSteps) /\ extract_hard_skills
    \/ Within(MaxSteps) /\ check_for_bothskills
    \/ Within(MaxSteps) /\ extract_requirements
    \/ Within(MaxSteps) /\ extract_responsibilities
    \/ Within(MaxSteps) /\ evaluate_correctness

Spec == Init /\ [][Next]_vars

-----------------------------------------------------------------------------
(* Properties *)

LastMsg == messages[Len(messages)]

SkillExtractors == {"extract_soft_skills", "extract_hard_skills"}

\* the normalised labels the extraction collaborator returned over all ads
AllExtracted(replies) == UNION {NormaliseAll(replies[i]) : i \in 1..Len(replies)}

\* C1: check_for_bothskills on a SkillTypes record moves every skill that is in
\* hard and in soft to both, removes it from hard and from soft, and keeps the
\* other skills of hard and of soft in their list; {python, sql} and
\* {sql, communication} give hard {python}, soft {communication}, both {sql}.
C1_DedupCorrect ==
    [][(step' = "check_for_bothskills" /\ IsModel(skills)) =>
        /\ \A s \in skills.hard \cap skills.soft :
               s \in skills'.both /\ s \notin skills'.hard /\ s \notin skills'.soft
        /\ \A s \in skills.hard \ skills.soft : s \in skills'.hard
        /\ \A s \in skills.soft \ skills.hard : s \in skills'.soft
        /\ (skills.hard = {python, sql} /\ skills.soft = {sql, communication}) =>
               /\ skills'.hard = {python}
               /\ skills'.soft = {communication}
               /\ skills'.both = {sql}
      ]_vars

\* a state after check_for_bothskills moved sql out of {python, sql} and {sql, communication}
C1_Witness ==
    /\ step = "check_for_bothskills"
    /\ error = "none"
    /\ Len(messages) > 0
    /\ LastMsg = FoundMsg(1)
    /\ skills.hard = {python}
    /\ skills.soft = {communication}
    /\ skills.both = {sql}

\* C2: a skill that is in both before a check_for_bothskills step is in both after it.
C2_BothAccumulates ==
    [][step' = "check_for_bothskills" => skills.both \subseteq skills'.both]_vars

\* C3: a second check_for_bothskills directly after a first one completes and
\* leaves the skills as the first one left them.
C3_ReconcileIdempotent ==
    [][(step = "check_for_bothskills" /\ error = "none"
        /\ step' = "check_for_bothskills") =>
        (error' = "none" /\ skills' = skills)]_vars

\* C4: with a skills record and n >= 1 ads, a skill extraction leaves the
\* category's set equal to the prior set united with the normalised labels
\* returned for every ad.
C4_UnionOverEveryAd ==
    [][(step' \in SkillExtractors /\ IsModel(skills)
        /\ job_ads.present /\ job_ads.items # <<>>) =>
        /\ step' = "extract_soft_skills" =>
               skills'.soft = skills.soft \cup AllExtracted(extracted')
        /\ step' = "extract_hard_skills" =>
               skills'.hard = skills.hard \cup AllExtracted(extracted')
      ]_vars

\* C5: a skill extraction with job ads but no skills record completes without
\* an error and changes nothing but the log.
C5_ExtractWithoutSkillsIsNoOp ==
    [][(step' \in SkillExtractors /\ skills.form = "absent"
        /\ job_ads.present /\ job_ads.items # <<>>) =>
        /\ error' = "none"
        /\ UNCHANGED <<skills, job_ads, todos, requirements, responsibilities,
                       evaluation>>
      ]_vars

\* C6: check_for_bothskills without a skills record completes without an error
\* and leaves the state unchanged.
C6_ReconcileWithoutSkillsIsNoOp ==
    [][(step' = "check_for_bothskills" /\ skills.form = "absent") =>
        /\ error' = "none"
        /\ UNCHANGED <<skills, job_ads, todos, requirements, responsibilities,
                       evaluation>>
      ]_vars

\* C7: the string read_todos returns for a non-empty todo list has, for every
\* item, a line with the item's content and the glyph of its status.
C7_RenderingComplete ==
    (step = "read_todos" /\ Get(todos) # <<>>) =>
        \A i \in 1..Len(todos.items) :
            \E k \in 1..Len(LastMsg.list) :
                /\ LastMsg.list[k].content = todos.items[i].content
                /\ LastMsg.list[k].status = todos.items[i].status
                /\ LastMsg.list[k].emoji = status_emoji(todos.items[i].status)
                /\ LastMsg.list[k].index = i

\* the positions of the log at which write_todos reported
TodoWrites == {i \in 1..Len(messages) : messages[i].kind = "Updated todo list to"}

\* C8: after any sequence of write_todos calls the stored todo list is exactly
\* the list the last call supplied; before the first call there is none.
C8_WholeListReplace ==
    IF TodoWrites = {}
    THEN todos = Missing
    ELSE LET last == CHOOSE i \in TodoWrites : \A j \in TodoWrites : j <= i
         IN  todos = Field(messages[last].list)

\* a state after write_todos([extract skills: pending]) and then
\* write_todos([extract skills: completed])
C8_Witness ==
    /\ Len(messages) = 2
    /\ messages[1] = TodosMsg(<<[content |-> "extract skills", status |-> "pending"]>>)
    /\ messages[2] = TodosMsg(<<[content |-> "extract skills", status |-> "completed"]>>)
    /\ todos.present
    /\ todos.items = <<[content |-> "extract skills", status |-> "completed"]>>

GuardedTools ==
    {"extract_soft_skills", "extract_hard_skills", "extract_requirements",
     "extract_responsibilities", "evaluate_correctness"}

\* C9: with job_ads empty or missing, each of the five extraction and
\* evaluation tools calls no collaborator, leaves skills, requirements and
\* responsibilities unchanged and appends exactly the 'no job ads' message.
C9_EmptyInputGuard ==
    [][(step' \in GuardedTools /\ (~job_ads.present \/ job_ads.items = <<>>)) =>
        /\ ncalls' = 0
        /\ error' = "none"
        /\ UNCHANGED <<skills, requirements, responsibilities>>
        /\ messages' = Append(messages, NoJobAdsMsg)
      ]_vars

\* a state after evaluate_correctness ran on a seeded state with an empty job_ads list
C9_Witness ==
    /\ step = "evaluate_correctness"
    /\ job_ads = Field(<<>>)
    /\ messages = <<NoJobAdsMsg>>
    /\ ncalls = 0
    /\ IsModel(skills) /\ skills.hard # {}
    /\ requirements = Field(<<"degree">>)
    /\ ~evaluation.present

\* C10: a skill extraction repeated on the same job ads, the collaborator
\* returning the same labels, completes and leaves the category's set as the
\* first run left it.
C10_ExtractionIdempotent ==
    [][(step \in SkillExtractors /\ error = "none" /\ step' = step
        /\ job_ads.present /\ job_ads.items # <<>>
        /\ Len(extracted) = Len(job_ads.items) /\ extracted' = extracted) =>
        /\ error' = "none"
        /\ skills'.soft = skills.soft
        /\ skills'.hard = skills.hard
      ]_vars

-----------------------------------------------------------------------------
(* Properties of evaluate_correctness *)

\* an evaluation over at least one job ad has just completed
Evaluated ==
    /\ step = "evaluate_correctness"
    /\ error = "none"
    /\ evaluation.present
    /\ job_ads.present /\ job_ads.items # <<>>

\* the {reasoning, score} results the stored evaluation holds for a category
StoredResults(cat) ==
    IF cat \in {"hard", "soft", "both"}
    THEN LET entries == evaluation.result.skills.entries
         IN  {[reasoning |-> entries[k].reasoning, score |-> entries[k].score] :
                 k \in {j \in 1..Len(entries) : entries[j].name = cat}}
    ELSE LET entry == evaluation.result[cat]
         IN  IF entry.present
             THEN {[reasoning |-> entry.reasoning, score |-> entry.score]}
             ELSE {}

\* the categories whose list in the state is non-empty
NonEmptyCategories ==
    {c \in {"hard", "soft", "both"} : skills.form # "absent" /\ skills[c] # {}}
    \cup (IF requirements.present /\ requirements.items # <<>>
          THEN {"requirements"} ELSE {})
    \cup (IF responsibilities.present /\ responsibilities.items # <<>>
          THEN {"responsibilities"} ELSE {})

\* C11: after evaluate_correctness over n >= 1 job ads, the stored evaluation
\* holds, for every ad and every category whose list is non-empty, the
\* reasoning and the (normalised) scores the judge returned for that ad and
\* category.
C11_ResultPerAdAndCategory ==
    Evaluated =>
        \A i \in 1..Len(job_ads.items) : \A c \in NonEmptyCategories :
            [reasoning |-> judge[<<job_ads.items[i], c>>].reasoning,
             score |-> NormaliseScores(judge[<<job_ads.items[i], c>>].score, score_range)]
                \in StoredResults(c)

\* the number of items of a category that the judge is asked about
ItemCount(c) ==
    IF c \in {"hard", "soft", "both"} THEN Cardinality(skills[c])
    ELSE IF c = "requirements" THEN Len(requirements.items)
    ELSE Len(responsibilities.items)

\* C12: an evaluation is stored and reported as successful only when every
\* reply of the judge was aligned: as many reasoning items as scores, and as
\* many scores as items judged.
C12_MisalignmentReported ==
    (Evaluated /\ LastMsg = GEvalMsg) =>
        \A i \in 1..Len(job_ads.items) : \A c \in NonEmptyCategories :
            LET reply == judge[<<job_ads.items[i], c>>]
            IN  /\ Len(reply.reasoning) = Len(reply.score)
                /\ Len(reply.score) = ItemCount(c)

\* C13: every stored evaluation result has as many reasoning items as scores
\* and as many scores as the category has items.
C13_AlignmentInvariant ==
    Evaluated =>
        \A c \in Categories : \A r \in StoredResults(c) :
            /\ Len(r.reasoning) = Len(r.score)
            /\ Len(r.score) = ItemCount(c)

\* C14: every stored score is the raw score at the same position divided by
\* the upper bound of the score range, 10 (the lower bound is not
\* subtracted); the sequence keeps its length and order; a raw score within
\* [0, 10] is stored as a value between 0 and 1 (raw 8 gives 8/10).
C14_ScoreNormalisation ==
    Evaluated =>
        \A c \in Categories : \A r \in StoredResults(c) :
            \E i \in 1..Len(job_ads.items) :
                LET raw == judge[<<job_ads.items[i], c>>].score
                IN  /\ r.reasoning = judge[<<job_ads.items[i], c>>].reasoning
                    /\ Len(r.score) = Len(raw)
                    /\ \A k \in 1..Len(raw) :
                          /\ r.score[k].den = 10
                          /\ r.score[k].num = raw[k]
                          /\ (raw[k] >= 0 /\ raw[k] <= 10) =>
                                /\ 0 <= r.score[k].num
                                /\ r.score[k].num <= r.score[k].den
                          /\ raw[k] = 8 => r.score[k] = [num |-> 8, den |-> 10]

\* an evaluation of one ad stored the raw score 8 of the requirements as 8/10
C14_Witness ==
    /\ Evaluated
    /\ job_ads.items = <<"ad1">>
    /\ judge[<<"ad1", "requirements">>].score = <<8>>
    /\ evaluation.result.requirements.present
    /\ evaluation.result.requirements.score = <<[num |-> 8, den |-> 10]>>
    /\ evaluation.result.skills.present
    /\ Len(evaluation.result.skills.entries) = 2

\* a category has an entry in the stored evaluation iff its list is non-empty
EntryIffNonEmpty ==
    \A c \in Categories : (StoredResults(c) # {}) <=> (c \in NonEmptyCategories)

\* the judge was called once per advertisement and non-empty category, and
\* for no other category
JudgeCalledForNonEmptyOnly ==
    ncalls = Len(job_ads.items) * Cardinality(NonEmptyCategories)

AllSkillListsEmpty == skills.hard = {} /\ skills.soft = {} /\ skills.both = {}

\* C15 as stated: a category has an entry iff its list is non-empty, the judge
\* is called only for non-empty categories, and when hard, soft and both are
\* all empty the result has no skills entry.
C15_NoSkillsEntryWhenAllEmpty ==
    Evaluated =>
        /\ EntryIffNonEmpty
        /\ JudgeCalledForNonEmptyOnly
        /\ AllSkillListsEmpty => ~evaluation.result.skills.present

\* C15 (amended): a category has an entry iff its list is non-empty, the judge
\* is called only for non-empty categories, and when hard, soft and both are
\* all empty the skills entry holds no category: it is the empty list when a
\* skills record exists and is absent when there is none.
C15_EmptyCategoriesSkipped ==
    Evaluated =>
        /\ EntryIffNonEmpty
        /\ JudgeCalledForNonEmptyOnly
        /\ AllSkillListsEmpty =>
              /\ evaluation.result.skills.entries = <<>>
              /\ evaluation.result.skills.present <=> (skills.form = "model")

\* an evaluation of a state whose skills record has three empty lists and
\* whose responsibilities are missing stored an empty skills list, a
\* requirements entry and no responsibilities entry
C15_Witness ==
    /\ Evaluated
    /\ skills.form = "model" /\ AllSkillListsEmpty
    /\ evaluation.result.skills = [present |-> TRUE, entries |-> <<>>]
    /\ requirements.items # <<>>
    /\ evaluation.result.requirements.present
    /\ ~responsibilities.present
    /\ ~evaluation.result.responsibilities.present
    /\ ncalls = Len(job_ads.items)

-----------------------------------------------------------------------------
(* Properties of the skill tools and of the message log *)

\* C16: when a skills record exists and hard and soft share no label,
\* check_for_bothskills leaves hard, soft, both and every other field
\* unchanged and appends exactly one message, reporting that all values are
\* unique.
C16_EmptyIntersectionNoOp ==
    [][(step' = "check_for_bothskills" /\ skills.form = "model"
        /\ skills.hard \cap skills.soft = {}) =>
        /\ error' = "none"
        /\ skills' = skills
        /\ UNCHANGED <<job_ads, todos, requirements, responsibilities, evaluation>>
        /\ messages' = Append(messages, UniqueMsg)
      ]_vars

\* a reconciliation of disjoint, non-empty hard and soft sets reported unique
\* values
C16_Witness ==
    /\ step = "check_for_bothskills"
    /\ messages = <<UniqueMsg>>
    /\ skills.form = "model"
    /\ skills.hard = {python} /\ skills.soft = {communication} /\ skills.both = {sql}

\* C17: every step of a tool, other than one in which a collaborator failed,
\* returns a patch with exactly one log message: the log after the step is the
\* log before it followed by that message, no earlier entry removed or
\* rewritten.
C17_AppendOnlyLog ==
    [][(step' # "start" /\ error' # "CollaboratorError") =>
        /\ Len(messages') = Len(messages) + 1
        /\ SubSeq(messages', 1, Len(messages)) = messages
      ]_vars

\* C18: a step adds elements to both only if it is check_for_bothskills, and
\* every element it adds was in hard \cap soft when the step started; so from
\* a state whose both is empty, every element of both in a reachable state
\* came from the intersection at the start of an earlier reconciliation.
C18_BothProvenance ==
    [][(skills'.both \ skills.both # {}) =>
        /\ step' = "check_for_bothskills"
        /\ (skills'.both \ skills.both) \subseteq (skills.hard \cap skills.soft)
      ]_vars

\* a reconciliation that started from an empty both and moved sql into it
C18_Witness ==
    /\ step = "check_for_bothskills"
    /\ error = "none"
    /\ messages = <<FoundMsg(1)>>
    /\ skills = model_dump(SkillTypes({python}, {communication}, {sql}))

\* a label without leading, trailing or repeated whitespace
WhitespaceCollapsed(label) ==
    /\ label # <<>> => (label[1] # " " /\ label[Len(label)] # " ")
    /\ \A i \in 1..(Len(label) - 1) : ~(label[i] = " " /\ label[i + 1] = " ")

\* a label without an upper-case character
LowerCased(label) == \A i \in 1..Len(label) : label[i] \notin {"S", "P", "C"}

\* C19: every label that a skill extraction adds to the skill set is
\* whitespace-collapsed and lower-cased, whatever label the collaborator
\* returned, with or without an underscore.
C19_LabelsNormalised ==
    [][(step' \in SkillExtractors /\ error' = "none") =>
        \A label \in (skills'.soft \ skills.soft) \cup (skills'.hard \ skills.hard) :
            WhitespaceCollapsed(label) /\ LowerCased(label)
      ]_vars

\* the tools that call a collaborator
CollaboratorTools ==
    {"extract_soft_skills", "extract_hard_skills", "extract_requirements",
     "extract_responsibilities", "evaluate_correctness"}

\* C20: when the extraction or judging collaborator fails during a step, the
\* step returns no patch and no message (every field keeps its value), the
\* failure leaves the tool, and the collaborator is not called again: a step
\* makes at most one call per ad, and per ad and non-empty category when it
\* evaluates.
C20_FailurePropagates ==
    [][(step' \in CollaboratorTools) =>
        /\ (error' = "CollaboratorError") =>
              UNCHANGED <<skills, requirements, responsibilities, todos, job_ads,
                          evaluation, messages>>
        /\ ncalls' <= Len(job_ads.items)
                        * (IF step' = "evaluate_correctness"
                           THEN Cardinality(NonEmptyCategories) ELSE 1)
      ]_vars

\* extract_soft_skills failed on the second of two ads after one reply
C20_Witness ==
    /\ step = "extract_soft_skills"
    /\ error = "CollaboratorError"
    /\ ncalls = 2
    /\ Len(extracted) = 1
    /\ job_ads.items = <<"ad1", "ad2">>
    /\ skills = SkillTypes({python}, {}, {})
    /\ messages = <<>>

-----------------------------------------------------------------------------
(* Properties of the list extractors, of job_ads and of read_todos *)

ListExtractors == {"extract_requirements", "extract_responsibilities"}

\* C21: after extract_requirements (extract_responsibilities) has run on a
\* non-empty job_ads list, the requirements (responsibilities) field is the
\* list the collaborator returned (for the last advertisement it was called
\* on), in its order, with nothing kept from the prior list, and no field
\* other than that list and the message log has changed.
C21_ListReplacedWholesale ==
    [][(step' \in ListExtractors /\ error' = "none"
        /\ job_ads.present /\ job_ads.items # <<>>) =>
        /\ Len(extracted') = Len(job_ads.items)
        /\ step' = "extract_requirements" =>
              /\ requirements' =
                    [present |-> TRUE, items |-> extracted'[Len(extracted')]]
              /\ UNCHANGED responsibilities
        /\ step' = "extract_responsibilities" =>
              /\ responsibilities' =
                    [present |-> TRUE, items |-> extracted'[Len(extracted')]]
              /\ UNCHANGED requirements
        /\ UNCHANGED <<skills, job_ads, todos, evaluation>>
        /\ Len(messages') = Len(messages) + 1
      ]_vars

\* extract_requirements replaced the seeded list ["degree"] by the two items
\* returned for the second of two ads
C21_Witness ==
    /\ step = "extract_requirements"
    /\ error = "none"
    /\ job_ads.items = <<"ad1", "ad2">>
    /\ extracted = <<(<<"degree">>), (<<"5 years", "degree">>)>>
    /\ requirements = Field(<<"5 years", "degree">>)
    /\ responsibilities = Field(<<"5 years">>)
    /\ messages = <<ExtractedMsg(2)>>

\* C22 as stated: once the job_ads field exists (update_content created it),
\* no later step changes it.
C22_JobAdsNeverChange ==
    [][job_ads.present => job_ads' = job_ads]_vars

\* C22 (amended): the only step that changes job_ads is update_content, which
\* replaces the whole list with the one it was given, on the first ingestion
\* and on every later one.
C22_OnlyIngestionChangesJobAds ==
    [][/\ (job_ads' # job_ads) => step' = "update_content"
       /\ (step' = "update_content") =>
             /\ job_ads'.present
             /\ messages' = Append(messages, ContentMsg(job_ads'.items))
      ]_vars

\* after an ingestion of two ads, a requirements extraction ran and the ads
\* are as ingested
C22_Witness ==
    /\ Len(messages) = 2
    /\ messages[1] = ContentMsg(<<"ad1", "ad2">>)
    /\ LastMsg = ExtractedMsg(1)
    /\ step = "extract_requirements"
    /\ error = "none"
    /\ requirements.present
    /\ job_ads = Field(<<"ad1", "ad2">>)

\* C23: when the state has no todos field or the todo list is empty,
\* read_todos returns the "no todos" message and changes no state field.
C23_EmptyTodoRendering ==
    [][(step' = "read_todos" /\ (~todos.present \/ todos.items = <<>>)) =>
        /\ error' = "none"
        /\ messages' = Append(messages, NoTodosMsg)
        /\ UNCHANGED <<todos, skills, job_ads, requirements, responsibilities,
                       evaluation>>
      ]_vars

\* read_todos ran after write_todos had stored an empty list
C23_Witness ==
    /\ step = "read_todos"
    /\ todos = Field(<<>>)
    /\ messages = <<TodosMsg(<<>>), NoTodosMsg>>

-----------------------------------------------------------------------------
(* Properties of sequences of skill steps *)

SkillsPresent == skills.form # "absent"

HasJobAds == job_ads.present /\ job_ads.items # <<>>

\* C24: from a state with a skills record and non-empty job_ads, every step of
\* a skill tool runs without an error of its own (a failing collaborator
\* aside): the value the previous step wrote to skills is in the form the
\* step reads.
C24_StepsCompose ==
    [][(SkillsPresent /\ HasJobAds /\ step' # "start") =>
        error' \in {"none", "CollaboratorError"}
      ]_vars

PairwiseDisjoint(sk) ==
    /\ sk.hard \cap sk.soft = {}
    /\ sk.hard \cap sk.both = {}
    /\ sk.soft \cap sk.both = {}

\* C25: immediately after a check_for_bothskills step that started with a
\* skills record whose both is empty, hard, soft and both are pairwise
\* disjoint.
C25_DisjointAfterReconciliation ==
    [][(step' = "check_for_bothskills" /\ SkillsPresent /\ skills.both = {}) =>
        PairwiseDisjoint(skills')
      ]_vars

\* C26: with a skills record present, a skill extraction over non-empty
\* job_ads whose collaborator answers completes and changes only its own
\* set (extract_hard_skills the hard set, extract_soft_skills the soft set),
\* whichever extraction ran before it; so the two orders give the same sets.
C26_ScopedExtractionCommutes ==
    [][(step' \in SkillExtractors /\ SkillsPresent /\ HasJobAds
        /\ error' # "CollaboratorError") =>
        /\ error' = "none"
        /\ skills'.both = skills.both
        /\ step' = "extract_hard_skills" =>
              (skills'.soft = skills.soft /\ skills.hard \subseteq skills'.hard)
        /\ step' = "extract_soft_skills" =>
              (skills'.hard = skills.hard /\ skills.soft \subseteq skills'.soft)
      ]_vars

====
